---- MODULE Spec2Model ----
(***************************************************************************)
(* ForgeAI: the asynchronous HTTP job service (pkg/api) and the executors  *)
(* it drives (pkg/executor, pkg/container).                                *)
(*                                                                         *)
(* A *Job is an index into heap; the JobManager's map is jobs.  Every      *)
(* goroutine is a program counter: hpc[j] is the creating HTTP handler of  *)
(* job j, wpc[j] is the goroutine started by `go ExecuteJob(job)`.  A      *)
(* critical section of JobManager.mu is one action.                        *)
(***************************************************************************)
EXTENDS Integers, Sequences, FiniteSets, TLC

VARIABLES
    clock,      \* the reading of time.Now() (nanoseconds)
    heap,       \* the Job structs allocated so far; a *Job is an index
    jobs,       \* JobManager.jobs : map[string]*Job
    hpc,        \* per job: where its creating handler is
    req,        \* per job: the creating handler's req struct after defaults
    wpc,        \* per job: where its ExecuteJob goroutine is
    wres,       \* per job: ExecuteJob's locals (result, err)
    ret,        \* what the JobManager call or handler of the step just taken returned
    http,       \* the status code of the response sent in the step just taken (0 = none)
    rd,         \* the handleGetJob / handleListJobs call that is reading job fields
    ex,         \* the ExecuteFile call of an executor that is in progress
    fs,         \* the directories that exist, each with the names of its files
    call,       \* the Execute(language, code) call of an executor that is in progress
    cli,        \* the forgeai command: its flags, the executor it built, what it invoked
    plug,       \* the plugin registry, the installed plugins, the plugin manager's table
    tf,         \* the security test framework: the test case validated last
    pf          \* the performance framework: the test that is running

jobVars == <<clock, heap, jobs, hpc, req, wpc, wres, ret, http>>

(* What the job service and a single ExecuteFile call leave alone *)
aside == <<fs, call, cli, plug, tf, pf>>

vars ==
    <<clock, heap, jobs, hpc, req, wpc, wres, ret, http, rd, ex, fs, call, cli, plug, tf, pf>>

----------------------------------------------------------------------------
(* Bounds of the model *)

MaxJobs == 2
MaxClock == 2
MaxReadJobs == 1

(* Program constants *)

DefaultTimeout == 30
DefaultMemoryLimit == 128

ZeroTime == 0

SupportedLanguages == {"python", "go", "javascript"}

(* Request values the handlers are driven with *)

NoPath == <<>>

ExecuteRequests ==
    {[language |-> "python", code |-> "print(1)", timeout |-> 0,
      memory_limit |-> 0, network_access |-> FALSE],
     [language |-> "cobol", code |-> "print(1)", timeout |-> 5,
      memory_limit |-> 64, network_access |-> TRUE],
     [language |-> "python", code |-> "while True: pass", timeout |-> -1,
      memory_limit |-> 0, network_access |-> FALSE],
     [language |-> "", code |-> "print(1)", timeout |-> 0,
      memory_limit |-> 0, network_access |-> FALSE]}

FileRequests ==
    {[file_path |-> <<"/srv", "job", ".py">>, timeout |-> 0,
      memory_limit |-> 0, network_access |-> FALSE],
     [file_path |-> <<"/srv", "notes", ".txt">>, timeout |-> 5,
      memory_limit |-> 64, network_access |-> TRUE],
     [file_path |-> NoPath, timeout |-> 0,
      memory_limit |-> 0, network_access |-> FALSE]}

----------------------------------------------------------------------------
(* generateJobID: fmt.Sprintf("job-%d", time.Now().UnixNano()) *)
generateJobID(now) == "job-" \o ToString(now)

JobIDs == {generateJobID(t) : t \in 1..MaxClock} \cup {"job-0"}

(* The Job literal of CreateJob (filePath = NoPath) and of CreateFileJob   *)
(* (language = code = ""); the fields not named there are zero values      *)
NewJob(id, language, code, filePath, now) ==
    [ID |-> id, Status |-> "pending", Language |-> language, Code |-> code,
     FilePath |-> filePath, Timeout |-> DefaultTimeout,
     MemoryLimit |-> DefaultMemoryLimit, NetworkAccess |-> FALSE,
     Result |-> <<>>, Error |-> "",
     CreatedAt |-> now, StartedAt |-> ZeroTime, CompletedAt |-> ZeroTime]

(* jm.jobs[job.ID] = job *)
MapPut(m, k, v) == [x \in (DOMAIN m) \cup {k} |-> IF x = k THEN v ELSE m[x]]

----------------------------------------------------------------------------
(* The local executor as ExecuteJob sees it *)

(* filepath.Ext of a path <<dir, stem, ext>> *)
Ext(filePath) == IF filePath = NoPath THEN "" ELSE filePath[3]

getLanguageFromFile(filePath) ==
    CASE Ext(filePath) = ".py" -> "python"
      [] Ext(filePath) = ".go" -> "go"
      [] Ext(filePath) = ".js" -> "javascript"
      [] OTHER -> "unknown"

(* writeCodeToFile: the file name chosen for a language, <<>> for the default branch *)
CodeFileName(language) ==
    CASE language = "python" -> <<"main", ".py">>
      [] language = "go" -> <<"main", ".go">>
      [] language = "javascript" -> <<"main", ".js">>
      [] OTHER -> <<>>

(* What the child process does when left alone: "exit" or "loop" *)
ChildBehaviour(code) == IF code = "while True: pass" THEN "loop" ELSE "exit"

TimedOutResult == [Stdout |-> "", Stderr |-> "Execution timed out", ExitCode |-> -1]
ExitResult(c) == [Stdout |-> "1", Stderr |-> "", ExitCode |-> c]

(* LocalExecutor.ExecuteFile: the (result, err) pairs a call can return.   *)
(* With a deadline the child is killed at expiry; without one the call     *)
(* returns only when the child exits.                                       *)
LocalExecuteFileReturns(filePath, behaviour, timeout) ==
    IF getLanguageFromFile(filePath) = "unknown"
    THEN {[result |-> <<>>, err |-> <<"unsupported language: unknown">>]}
    ELSE (IF behaviour = "exit"
          THEN {[result |-> <<ExitResult(0)>>, err |-> <<>>]}
          ELSE {})
         \cup
         (IF timeout > 0
          THEN {[result |-> <<TimedOutResult>>, err |-> <<>>]}
          ELSE {})

(* LocalExecutor.Execute *)
LocalExecuteReturns(language, code, timeout) ==
    IF CodeFileName(language) = <<>>
    THEN {[result |-> <<>>,
           err |-> <<"failed to write code to file: unsupported language: " \o language>>]}
    ELSE LocalExecuteFileReturns(<<"/tmp/forgeai-1">> \o CodeFileName(language),
                          ChildBehaviour(code), timeout)

(* ExecuteJob lines 131-146: the call made for a job, by job type *)
ExecuteJobCall(job) ==
    IF job.Code # ""
    THEN LocalExecuteReturns(job.Language, job.Code, job.Timeout)
    ELSE IF job.FilePath # NoPath
         THEN UNION {LocalExecuteFileReturns(job.FilePath, b, job.Timeout) : b \in {"exit", "loop"}}
         ELSE {[result |-> <<>>, err |-> <<"invalid job: no code or file path">>]}

----------------------------------------------------------------------------
NoRet == [op |-> "none"]

(* The file system before any call: a user's directory with a source file *)
InitFs == "/srv" :> {"job.py"}

(* No plugin installed, none loaded, no command of the plugin tool run *)
InitPlug ==
    [dirs |-> << >>, plugins |-> << >>, loaded |-> << >>, last |-> [op |-> "none"],
     outside |-> {"data"}]

Init ==
    /\ clock = 1
    /\ heap = <<>>
    /\ jobs = <<>>
    /\ hpc = <<>>
    /\ req = <<>>
    /\ wpc = <<>>
    /\ wres = <<>>
    /\ ret = NoRet
    /\ http = 0
    /\ rd = [pc |-> "idle"]
    /\ ex = [pc |-> "idle"]
    /\ fs = InitFs
    /\ call = [pc |-> "idle"]
    /\ cli = [pc |-> "idle"]
    /\ plug = InitPlug
    /\ tf = [pc |-> "idle"]
    /\ pf = [pc |-> "idle"]

(* A step that sends no response and returns nothing to a handler *)
Quiet == ret' = NoRet /\ http' = 0

(* Time passes *)
Tick ==
    /\ clock < MaxClock
    /\ clock' = clock + 1
    /\ Quiet
    /\ UNCHANGED <<heap, jobs, hpc, req, wpc, wres>>

(* req.Timeout == 0 -> 30, req.MemoryLimit == 0 -> 128 *)
WithDefaults(r) ==
    [Timeout |-> IF r.timeout = 0 THEN DefaultTimeout ELSE r.timeout,
     MemoryLimit |-> IF r.memory_limit = 0 THEN DefaultMemoryLimit ELSE r.memory_limit,
     NetworkAccess |-> r.network_access]

(* CreateJob / CreateFileJob: the id is generated from the clock, CreatedAt *)
(* is a second reading of the clock (d later), then the job is stored      *)
(* under the lock.                                                          *)
CreateJob(language, code, filePath, d) ==
    /\ Len(heap) < MaxJobs
    /\ clock + d <= MaxClock
    /\ LET id == generateJobID(clock)
           job == NewJob(id, language, code, filePath, clock + d)
       IN /\ heap' = Append(heap, job)
          /\ jobs' = MapPut(jobs, id, Len(heap) + 1)
    /\ clock' = clock + d

(* handleExecuteCode up to the return of CreateJob (lines 135-159) *)
handleExecuteCode(r) ==
    IF r.language = "" \/ r.code = ""
    THEN /\ http' = 400
         /\ ret' = NoRet
         /\ UNCHANGED <<clock, heap, jobs, hpc, req, wpc, wres>>
    ELSE /\ \E d \in {0, 1} : CreateJob(r.language, r.code, NoPath, d)
         /\ req' = Append(req, WithDefaults(r))
         /\ hpc' = Append(hpc, "setLimits")
         /\ wpc' = Append(wpc, "none")
         /\ wres' = Append(wres, <<>>)
         /\ Quiet

(* handleExecuteFile up to the return of CreateFileJob (lines 175-198) *)
handleExecuteFile(r) ==
    IF r.file_path = NoPath
    THEN /\ http' = 400
         /\ ret' = NoRet
         /\ UNCHANGED <<clock, heap, jobs, hpc, req, wpc, wres>>
    ELSE /\ \E d \in {0, 1} : CreateJob("", "", r.file_path, d)
         /\ req' = Append(req, WithDefaults(r))
         /\ hpc' = Append(hpc, "setLimits")
         /\ wpc' = Append(wpc, "none")
         /\ wres' = Append(wres, <<>>)
         /\ Quiet

(* job.Timeout = req.Timeout; job.MemoryLimit = req.MemoryLimit;         *)
(* job.NetworkAccess = req.NetworkAccess.  The three fields are written    *)
(* before the worker exists and nothing else in the model reads them, so   *)
(* the three writes are one step.                                           *)
HandlerSetLimits(j) ==
    /\ hpc[j] = "setLimits"
    /\ heap' = [heap EXCEPT ![j].Timeout = req[j].Timeout,
                            ![j].MemoryLimit = req[j].MemoryLimit,
                            ![j].NetworkAccess = req[j].NetworkAccess]
    /\ hpc' = [hpc EXCEPT ![j] = "go"]
    /\ Quiet
    /\ UNCHANGED <<clock, jobs, req, wpc, wres>>

(* go s.jobManager.ExecuteJob(job) *)
HandlerGo(j) ==
    /\ hpc[j] = "go"
    /\ wpc' = [wpc EXCEPT ![j] = "start"]
    /\ hpc' = [hpc EXCEPT ![j] = "respond"]
    /\ Quiet
    /\ UNCHANGED <<clock, heap, jobs, req, wres>>

(* The body of the 201 response: job.ID and job.Status as read from the job *)
CreatedBody(job) == [op |-> "created", job_id |-> job.ID, status |-> job.Status]

(* c.JSON(201, {"job_id": job.ID, "status": job.Status}): job.Status is    *)
(* read here, without the lock, after the goroutine was started             *)
HandlerRespond(j) ==
    /\ hpc[j] = "respond"
    /\ ret' = CreatedBody(heap[j])
    /\ http' = 201
    /\ hpc' = [hpc EXCEPT ![j] = "done"]
    /\ UNCHANGED <<clock, heap, jobs, req, wpc, wres>>

(* ExecuteJob lines 126-129 *)
Started(job, now) == [job EXCEPT !.Status = "running", !.StartedAt = now]

ExecuteJobStart(j) ==
    /\ wpc[j] = "start"
    /\ heap' = [heap EXCEPT ![j] = Started(heap[j], clock)]
    /\ wpc' = [wpc EXCEPT ![j] = "exec"]
    /\ Quiet
    /\ UNCHANGED <<clock, jobs, hpc, req, wres>>

(* ExecuteJob lines 131-146: the executor call returns *)
ExecuteJobRun(j) ==
    /\ wpc[j] = "exec"
    /\ \E o \in ExecuteJobCall(heap[j]) : wres' = [wres EXCEPT ![j] = <<o>>]
    /\ wpc' = [wpc EXCEPT ![j] = "finish"]
    /\ Quiet
    /\ UNCHANGED <<clock, heap, jobs, hpc, req>>

(* ExecuteJob without line 153: the error branch leaves Status alone *)
FinishedKeepsStatus(job, o, now) ==
    IF o.err # <<>>
    THEN [job EXCEPT !.CompletedAt = now, !.Error = o.err[1]]
    ELSE [job EXCEPT !.CompletedAt = now, !.Status = "completed", !.Result = o.result]

(* ExecuteJob lines 149-160, as a function of the job and the call's return *)
Finished(job, o, now) ==
    IF o.err # <<>>
    THEN [job EXCEPT !.CompletedAt = now, !.Status = "failed", !.Error = o.err[1]]
    ELSE [job EXCEPT !.CompletedAt = now, !.Status = "completed", !.Result = o.result]

ExecuteJobFinish(j) ==
    /\ wpc[j] = "finish"
    /\ heap' = [heap EXCEPT ![j] = Finished(heap[j], wres[j][1], clock)]
    /\ wpc' = [wpc EXCEPT ![j] = "done"]
    /\ wres' = [wres EXCEPT ![j] = <<>>]
    /\ Quiet
    /\ UNCHANGED <<clock, jobs, hpc, req>>

(* CancelJob without the status test of line 115 *)
CanCancelAny(id) == id \in DOMAIN jobs

(* CancelJob: whether it returns true *)
CanCancel(id) ==
    /\ id \in DOMAIN jobs
    /\ heap[jobs[id]].Status \in {"pending", "running"}

(* CancelJob *)
CancelJob(id) ==
    IF CanCancel(id)
    THEN /\ heap' = [heap EXCEPT ![jobs[id]].Status = "cancelled",
                                 ![jobs[id]].CompletedAt = clock]
         /\ ret' = [op |-> "CancelJob", ok |-> TRUE]
    ELSE /\ UNCHANGED heap
         /\ ret' = [op |-> "CancelJob", ok |-> FALSE]

(* handleCancelJob *)
handleCancelJob(id) ==
    /\ CancelJob(id)
    /\ http' = IF ret'.ok THEN 200 ELSE 404
    /\ UNCHANGED <<clock, jobs, hpc, req, wpc, wres>>

(* The set of elements of a sequence, the values of a map *)
Range(f) == {f[i] : i \in DOMAIN f}

(* GetJob: (job, ok) *)
GetJob(id) == IF id \in DOMAIN jobs THEN <<jobs[id], TRUE>> ELSE <<0, FALSE>>

(* ListJobs with the two filters of lines 95-96 joined by || *)
MatchesAny(job, status, language) ==
    (status = "" \/ job.Status = status) \/ (language = "" \/ job.Language = language)

(* ListJobs lines 95-96: the filter *)
Matches(job, status, language) ==
    (status = "" \/ job.Status = status) /\ (language = "" \/ job.Language = language)

(* ListJobs lines 93-101: `for _, job := range jm.jobs` visits the keys in *)
(* an unspecified order; the slices the loop can build from acc            *)
RECURSIVE ListJobsFrom(_, _, _, _)
ListJobsFrom(keys, acc, status, language) ==
    IF keys = {}
    THEN {acc}
    ELSE UNION {ListJobsFrom(keys \ {k},
                             IF Matches(heap[jobs[k]], status, language)
                             THEN Append(acc, jobs[k]) ELSE acc,
                             status, language) : k \in keys}

(* ListJobs, called by handleListJobs under the read lock *)
ListJobs(status, language) ==
    /\ \E r \in ListJobsFrom(DOMAIN jobs, <<>>, status, language) :
          ret' = [op |-> "ListJobs", jobs |-> r]
    /\ http' = 0
    /\ UNCHANGED <<clock, heap, jobs, hpc, req, wpc, wres>>

(* The query values of GET /v1/jobs *)
QueryStatuses == {"", "completed"}
QueryLanguages == {"", "python"}

(* The job service leaves the handlers that read job fields alone *)
JobFrame == UNCHANGED <<rd, ex, aside>>

Next ==
    \/ Tick /\ JobFrame
    \/ (\E r \in ExecuteRequests : handleExecuteCode(r)) /\ JobFrame
    \/ (\E r \in FileRequests : handleExecuteFile(r)) /\ JobFrame
    \/ (\E j \in 1..Len(heap) : HandlerSetLimits(j)) /\ JobFrame
    \/ (\E j \in 1..Len(heap) : HandlerGo(j)) /\ JobFrame
    \/ (\E j \in 1..Len(heap) : HandlerRespond(j)) /\ JobFrame
    \/ (\E j \in 1..Len(heap) : ExecuteJobStart(j)) /\ JobFrame
    \/ (\E j \in 1..Len(heap) : ExecuteJobRun(j)) /\ JobFrame
    \/ (\E j \in 1..Len(heap) : ExecuteJobFinish(j)) /\ JobFrame
    \/ (\E id \in JobIDs : handleCancelJob(id)) /\ JobFrame
    \/ (\E s \in QueryStatuses, l \in QueryLanguages : ListJobs(s, l)) /\ JobFrame

Spec == Init /\ [][Next]_vars

----------------------------------------------------------------------------
(* handleGetJob and handleListJobs: GetJob / ListJobs return *Job under    *)
(* the read lock; the handlers then read the fields of the jobs one after  *)
(* the other, in the order of the gin.H literal, without the lock.         *)

Reading == {"status", "started_at", "completed_at", "result", "error"}

EmptyBody ==
    [status |-> "", created_at |-> ZeroTime, started_at |-> ZeroTime,
     completed_at |-> ZeroTime, result |-> <<>>, error |-> ""]

(* The reader over the jobs r (a slice of *Job); seen[j] collects every    *)
(* value the struct of job j holds from the locked call on                 *)
ReaderOver(kind, r) ==
    IF r = <<>>
    THEN [pc |-> "sent", kind |-> kind, todo |-> <<>>, cur |-> EmptyBody,
          out |-> <<>>, seen |-> <<>>]
    ELSE [pc |-> "status", kind |-> kind, todo |-> r, cur |-> EmptyBody,
          out |-> <<>>, seen |-> [j \in Range(r) |-> {heap[j]}]]

(* handleGetJob lines 215-221 *)
handleGetJob(id) ==
    /\ rd.pc \in {"idle", "sent"}
    /\ UNCHANGED <<ex, aside>>
    /\ IF GetJob(id)[2]
       THEN /\ rd' = ReaderOver("get", <<GetJob(id)[1]>>)
            /\ Quiet
       ELSE /\ rd' = [pc |-> "idle"]
            /\ http' = 404
            /\ ret' = NoRet
    /\ UNCHANGED <<clock, heap, jobs, hpc, req, wpc, wres>>

(* handleListJobs lines 273-276 *)
handleListJobs(status, language) ==
    /\ rd.pc \in {"idle", "sent"}
    /\ UNCHANGED <<ex, aside>>
    /\ ListJobs(status, language)
    /\ rd' = ReaderOver("list", ret'.jobs)

(* "job_id": job.ID, "status": job.Status, "language": ..., "created_at" *)
ReadStatus ==
    /\ rd.pc = "status"
    /\ UNCHANGED <<ex, aside>>
    /\ LET job == heap[Head(rd.todo)]
       IN rd' = [rd EXCEPT !.cur = [EmptyBody EXCEPT !.status = job.Status,
                                                     !.created_at = job.CreatedAt],
                           !.pc = "started_at"]
    /\ Quiet
    /\ UNCHANGED <<clock, heap, jobs, hpc, req, wpc, wres>>

(* "started_at": job.StartedAt *)
ReadStartedAt ==
    /\ rd.pc = "started_at"
    /\ UNCHANGED <<ex, aside>>
    /\ rd' = [rd EXCEPT !.cur.started_at = heap[Head(rd.todo)].StartedAt,
                        !.pc = "completed_at"]
    /\ Quiet
    /\ UNCHANGED <<clock, heap, jobs, hpc, req, wpc, wres>>

(* "completed_at": job.CompletedAt; in handleListJobs this ends the entry  *)
(* and the loop moves to the next job, or sends the response               *)
ReadCompletedAt ==
    /\ rd.pc = "completed_at"
    /\ UNCHANGED <<ex, aside>>
    /\ LET j == Head(rd.todo)
           entry == [rd.cur EXCEPT !.completed_at = heap[j].CompletedAt]
       IN IF rd.kind = "get"
          THEN /\ rd' = [rd EXCEPT !.cur = entry, !.pc = "result"]
               /\ Quiet
          ELSE /\ rd' = [rd EXCEPT !.cur = EmptyBody,
                                   !.out = Append(@, [job |-> j, body |-> entry]),
                                   !.todo = Tail(@),
                                   !.pc = IF Tail(rd.todo) = <<>> THEN "sent" ELSE "status"]
               /\ http' = IF Tail(rd.todo) = <<>> THEN 200 ELSE 0
               /\ ret' = NoRet
    /\ UNCHANGED <<clock, heap, jobs, hpc, req, wpc, wres>>

(* handleGetJob lines 237-242 *)
ReadResult ==
    /\ rd.pc = "result"
    /\ UNCHANGED <<ex, aside>>
    /\ LET job == heap[Head(rd.todo)]
       IN rd' = [rd EXCEPT !.cur.result =
                              IF job.Status = "completed" /\ job.Result # <<>>
                              THEN job.Result ELSE <<>>,
                           !.pc = "error"]
    /\ Quiet
    /\ UNCHANGED <<clock, heap, jobs, hpc, req, wpc, wres>>

(* handleGetJob lines 245-249 *)
ReadError ==
    /\ rd.pc = "error"
    /\ UNCHANGED <<ex, aside>>
    /\ LET j == Head(rd.todo)
           body == [rd.cur EXCEPT !.error =
                       IF heap[j].Status = "failed" /\ heap[j].Error # ""
                       THEN heap[j].Error ELSE ""]
       IN rd' = [rd EXCEPT !.cur = EmptyBody,
                           !.out = <<[job |-> j, body |-> body]>>,
                           !.todo = <<>>,
                           !.pc = "sent"]
    /\ http' = 200
    /\ ret' = NoRet
    /\ UNCHANGED <<clock, heap, jobs, hpc, req, wpc, wres>>

(* While a handler reads, every value a listed job takes is recorded; a   *)
(* response that was sent is gone with the next step                       *)
Observe ==
    /\ UNCHANGED <<ex, aside>>
    /\ Len(heap') <= MaxReadJobs
    /\ rd' = IF rd.pc \in Reading
             THEN [rd EXCEPT !.seen = [j \in DOMAIN rd.seen |-> rd.seen[j] \cup {heap'[j]}]]
             ELSE [pc |-> "idle"]

ReadNext ==
    \/ Tick /\ Observe
    \/ (\E r \in ExecuteRequests : handleExecuteCode(r)) /\ Observe
    \/ (\E r \in FileRequests : handleExecuteFile(r)) /\ Observe
    \/ (\E j \in 1..Len(heap) : HandlerSetLimits(j)) /\ Observe
    \/ (\E j \in 1..Len(heap) : HandlerGo(j)) /\ Observe
    \/ (\E j \in 1..Len(heap) : HandlerRespond(j)) /\ Observe
    \/ (\E j \in 1..Len(heap) : ExecuteJobStart(j)) /\ Observe
    \/ (\E j \in 1..Len(heap) : ExecuteJobRun(j)) /\ Observe
    \/ (\E j \in 1..Len(heap) : ExecuteJobFinish(j)) /\ Observe
    \/ (\E id \in JobIDs : handleCancelJob(id)) /\ Observe
    \/ \E id \in JobIDs : handleGetJob(id)
    \/ \E s \in QueryStatuses, l \in QueryLanguages : handleListJobs(s, l)
    \/ ReadStatus
    \/ ReadStartedAt
    \/ ReadCompletedAt
    \/ ReadResult
    \/ ReadError

SpecRead == Init /\ [][ReadNext]_vars

----------------------------------------------------------------------------
(* One job under fair scheduling of its handler and of its worker          *)

MaxLiveJobs == 1

(* A request whose code never exits, with a timeout the deadline honours *)
DeadlineRequests ==
    {[language |-> "python", code |-> "while True: pass", timeout |-> 5,
      memory_limit |-> 0, network_access |-> FALSE]}

LiveFrame == UNCHANGED <<rd, ex, aside>> /\ Len(heap') <= MaxLiveJobs

FairNext ==
    \/ Tick /\ LiveFrame
    \/ (\E r \in ExecuteRequests \cup DeadlineRequests : handleExecuteCode(r)) /\ LiveFrame
    \/ (\E r \in FileRequests : handleExecuteFile(r)) /\ LiveFrame
    \/ (\E j \in 1..Len(heap) : HandlerSetLimits(j)) /\ LiveFrame
    \/ (\E j \in 1..Len(heap) : HandlerGo(j)) /\ LiveFrame
    \/ (\E j \in 1..Len(heap) : HandlerRespond(j)) /\ LiveFrame
    \/ (\E j \in 1..Len(heap) : ExecuteJobStart(j)) /\ LiveFrame
    \/ (\E j \in 1..Len(heap) : ExecuteJobRun(j)) /\ LiveFrame
    \/ (\E j \in 1..Len(heap) : ExecuteJobFinish(j)) /\ LiveFrame
    \/ (\E id \in JobIDs : handleCancelJob(id)) /\ LiveFrame

(* Every goroutine that can take a step eventually takes it: the handler   *)
(* up to `go`, and the worker goroutine                                    *)
Fairness ==
    \A j \in 1..MaxLiveJobs :
        /\ WF_vars(j <= Len(heap) /\ HandlerSetLimits(j) /\ LiveFrame)
        /\ WF_vars(j <= Len(heap) /\ HandlerGo(j) /\ LiveFrame)
        /\ WF_vars(j <= Len(heap) /\ ExecuteJobStart(j) /\ LiveFrame)
        /\ WF_vars(j <= Len(heap) /\ ExecuteJobRun(j) /\ LiveFrame)
        /\ WF_vars(j <= Len(heap) /\ ExecuteJobFinish(j) /\ LiveFrame)

SpecFair == Init /\ [][FairNext]_vars /\ Fairness

----------------------------------------------------------------------------
(* One ExecuteFile call of LocalExecutor or DockerExecutor, step by step,  *)
(* with the deadline of context.WithTimeout.  ex.child is the process that *)
(* exec.CommandContext started: what runs, and whether it is still running *)
(* or was killed by the context.                                            *)

ExecKinds == {"local", "docker", "containerized", "secure"}
ExecFilePaths == {<<"/srv", "job", ".py">>, <<"/srv", "main", ".go">>,
                  <<"/srv", "notes", ".txt">>}
ExecTimeouts == {0, 5, 30}

NoChild == [state |-> "none"]

isLanguageSupported(language) == language \in SupportedLanguages

(* getImageForLanguage *)
getImageForLanguage(language) ==
    CASE language = "python" -> "python:3.9-alpine"
      [] language = "go" -> "golang:1.19-alpine"
      [] language = "javascript" -> "node:16-alpine"
      [] OTHER -> "alpine:latest"

(* The locals of an ExecuteFile call at its entry.  engine is where the    *)
(* command will run ("host" or "docker"); spawned collects the processes   *)
(* the call has started                                                     *)
BeginRecord(kind, filePath, timeout) ==
    [pc |-> "language", kind |-> kind, filePath |-> filePath,
     timeout |-> timeout, ctx |-> "background", expired_at |-> "none",
     child |-> NoChild, cmdErr |-> <<>>, result |-> <<>>, err |-> <<>>,
     engine |-> IF kind = "docker" THEN "docker" ELSE "host", spawned |-> {},
     available |-> <<>>, config |-> [ReadOnlyRoot |-> TRUE, NetworkAccess |-> FALSE],
     args |-> {}, cwd |-> ""]

(* The call is entered: ExecuteFile(ctx, filePath) with context.Background() *)
ExecuteFileBegin(kind, filePath, timeout) ==
    /\ ex.pc \in {"idle", "returned"}
    /\ ex' = BeginRecord(kind, filePath, timeout)
    /\ UNCHANGED <<jobVars, rd, aside>>

(* The call is entered on an executor whose exported fields ReadOnlyRoot   *)
(* and NetworkAccess (EnableNetwork) the caller has set                     *)
ExecuteFileBeginConfigured(kind, filePath, timeout, readOnlyRoot, networkAccess) ==
    /\ ex.pc \in {"idle", "returned"}
    /\ ex' = [BeginRecord(kind, filePath, timeout) EXCEPT
                 !.config = [ReadOnlyRoot |-> readOnlyRoot,
                             NetworkAccess |-> networkAccess]]
    /\ UNCHANGED <<jobVars, rd, aside>>

Return(result, err) ==
    [ex EXCEPT !.pc = "returned", !.result = result, !.err = err, !.child = NoChild,
               !.ctx = IF @ = "armed" THEN "cancelled" ELSE @]

(* executor.go 54-60, docker.go 66-71: the language of the file *)
ExecuteFileLanguage ==
    /\ ex.pc = "language"
    /\ LET language == getLanguageFromFile(ex.filePath)
       IN ex' = IF ex.kind = "containerized"
                THEN [ex EXCEPT !.pc = "available"]
                ELSE IF isLanguageSupported(language)
                     THEN [ex EXCEPT !.pc = "context"]
                     ELSE Return(<<>>, <<"unsupported language: " \o language>>)
    /\ UNCHANGED <<jobVars, rd, aside>>

(* executor.go 67-71, docker.go 77-81: context.WithTimeout when Timeout > 0 *)
ExecuteFileContext ==
    /\ ex.pc = "context"
    /\ ex' = [ex EXCEPT !.ctx = IF ex.timeout > 0 THEN "armed" ELSE "background",
                        !.pc = IF ex.kind = "docker" THEN "available" ELSE "start"]
    /\ UNCHANGED <<jobVars, rd, aside>>

(* The deadline passes while the call is in progress: ctx.Err() becomes    *)
(* DeadlineExceeded and the process started with this context is killed    *)
DeadlineExpires ==
    /\ ex.pc \notin {"idle", "returned"}
    /\ ex.ctx = "armed"
    /\ ex' = [ex EXCEPT !.ctx = "expired", !.expired_at = ex.pc,
                        !.child.state = IF @ = "running" THEN "killed" ELSE @]
    /\ UNCHANGED <<jobVars, rd, aside>>

DockerUnavailable == <<"container execution failed: docker is not available">>

(* An availability check after which every executor falls back to the host *)
isDockerAvailableOrHost(available) ==
    /\ ex.pc = "available"
    /\ ex' = [ex EXCEPT !.spawned = @ \cup {"docker --version"},
                        !.available = <<available>>,
                        !.engine = IF available THEN "docker" ELSE "host",
                        !.pc = IF ex.kind = "containerized" THEN "command"
                               ELSE IF available THEN "inspect" ELSE "start"]
    /\ UNCHANGED <<jobVars, rd, aside>>

(* runContainer, docker.go 172-175, and ContainerizedExecutor.ExecuteFile  *)
(* 59-64: isDockerAvailable runs `docker --version` without the context    *)
isDockerAvailable(available) ==
    /\ ex.pc = "available"
    /\ LET ran == [ex EXCEPT !.spawned = @ \cup {"docker --version"},
                             !.available = <<available>>]
       IN ex' = IF ex.kind = "containerized"
                THEN [ran EXCEPT !.pc = "command",
                                 !.engine = IF available THEN "docker" ELSE "host"]
                ELSE IF available
                     THEN [ran EXCEPT !.pc = "inspect"]
                     ELSE [Return(<<>>, DockerUnavailable) EXCEPT !.spawned = ran.spawned,
                                                                 !.available = ran.available]
    /\ UNCHANGED <<jobVars, rd, aside>>

(* ContainerizedExecutor.executeLocally 170-173 and executeWithDocker     *)
(* 110-119: the command for the language, or the unsupported-language     *)
(* error                                                                    *)
ceCommandForLanguage ==
    /\ ex.pc = "command"
    /\ LET language == getLanguageFromFile(ex.filePath)
       IN ex' = IF isLanguageSupported(language)
                THEN [ex EXCEPT !.pc = "context"]
                ELSE Return(<<>>, <<"unsupported language: " \o language>>)
    /\ UNCHANGED <<jobVars, rd, aside>>

(* The error runContainer returns when pullImage fails, as ExecuteFile     *)
(* wraps it                                                                 *)
PullFailed ==
    <<"container execution failed: failed to pull image "
        \o getImageForLanguage(getLanguageFromFile(ex.filePath))>>

(* pullImage, docker.go 274-275: `docker image inspect` is started under   *)
(* the context; cmd.Start fails at once when the context is already done   *)
pullImageInspect(imageIsLocal) ==
    /\ ex.pc = "inspect"
    /\ ex' = IF ex.ctx = "expired"
             THEN [ex EXCEPT !.pc = "pull"]
             ELSE [ex EXCEPT !.pc = "inspecting",
                             !.spawned = @ \cup {"docker image inspect"},
                             !.child = [state |-> "running", cmd |-> "inspect",
                                        exits |-> IF imageIsLocal THEN 0 ELSE 1]]
    /\ UNCHANGED <<jobVars, rd, aside>>

(* pullImage, docker.go 275-279: cmd.Run returns; err == nil only when the *)
(* inspection itself exited with status 0                                  *)
pullImageInspected ==
    /\ ex.pc = "inspecting"
    /\ ex' = IF ex.child.state = "running" /\ ex.child.exits = 0
             THEN [ex EXCEPT !.pc = "start", !.child = NoChild]
             ELSE [ex EXCEPT !.pc = "pull", !.child = NoChild]
    /\ UNCHANGED <<jobVars, rd, aside>>

(* pullImage, docker.go 282-283 and runContainer 178-180: `docker pull`    *)
(* is started under the context                                            *)
pullImagePull(pullSucceeds) ==
    /\ ex.pc = "pull"
    /\ ex' = IF ex.ctx = "expired"
             THEN Return(<<>>, PullFailed)
             ELSE [ex EXCEPT !.pc = "pulling",
                             !.spawned = @ \cup {"docker pull"},
                             !.child = [state |-> "running", cmd |-> "pull",
                                        exits |-> IF pullSucceeds THEN 0 ELSE 1]]
    /\ UNCHANGED <<jobVars, rd, aside>>

(* pullImage, docker.go 283 and runContainer 178-180: the pull returns *)
pullImagePulled ==
    /\ ex.pc = "pulling"
    /\ ex' = IF ex.child.state = "running" /\ ex.child.exits = 0
             THEN [ex EXCEPT !.pc = "start", !.child = NoChild]
             ELSE Return(<<>>, PullFailed)
    /\ UNCHANGED <<jobVars, rd, aside>>

(* The errors of cmd.CombinedOutput: an *exec.ExitError with its exit     *)
(* code, or another error with its text                                    *)
ExitError(code) == [isExitError |-> TRUE, ExitCode |-> code, Error |-> "exit status"]
OtherError(text) == [isExitError |-> FALSE, ExitCode |-> 0, Error |-> text]

(* What the started program does when left alone: exit with 0, exit with   *)
(* 1, or never exit ("loop")                                                *)
ChildExits == {"0", "1", "loop"}

(* executor.go 73-84, docker.go 228-239: cmd.CombinedOutput starts the     *)
(* command.  cmd.Start returns the context's error when the context is     *)
(* done, an exec error when the program is not installed; neither is an    *)
(* *exec.ExitError                                                          *)
(* docker.go 185-213, containerized.go 76-104: the options of docker run   *)
(* before the image; MemoryLimit and CPUShares are positive                 *)
DockerRunArgs(kind, dir, config) ==
    {"--rm", "-w /workspace", "--memory", "--cpu-shares"}
    \cup {IF kind = "docker" THEN "-v " \o dir \o ":/workspace"
                              ELSE "-v " \o dir \o ":/workspace:ro"}
    \cup (IF config.ReadOnlyRoot
          THEN {"--read-only"} \cup (IF kind = "docker" THEN {} ELSE {"--tmpfs /tmp"})
          ELSE {})
    \cup (IF config.NetworkAccess THEN {} ELSE {"--network none"})
    \cup (IF kind = "docker" THEN {} ELSE {"--user 65534:65534"})

(* The working directory of the calling process *)
CallerDir == "."

(* cmd.Dir of a child started on the host: SecureExecutor (part_010 74,    *)
(* 77) and executeLocally (containerized.go 190, 193) set it to the        *)
(* file's directory, LocalExecutor leaves it empty, which is the calling   *)
(* process's directory; docker run is started in the caller's directory    *)
CommandDir(kind, engine, filePath) ==
    IF engine = "host" /\ kind # "local" THEN filePath[1] ELSE CallerDir

CommandStart(installed, exits) ==
    /\ ex.pc = "start"
    /\ ex' = IF ex.ctx = "expired"
             THEN [ex EXCEPT !.pc = "check", !.cmdErr = <<OtherError("context deadline exceeded")>>]
             ELSE IF ~installed
                  THEN [ex EXCEPT !.pc = "check",
                                  !.cmdErr = <<OtherError("executable file not found in $PATH")>>]
                  ELSE [ex EXCEPT !.pc = "running",
                                  !.spawned = @ \cup {ex.engine \o " run"},
                                  !.args = IF ex.engine = "docker"
                                           THEN DockerRunArgs(ex.kind, ex.filePath[1],
                                                              ex.config)
                                           ELSE {},
                                  !.cwd = CommandDir(ex.kind, ex.engine, ex.filePath),
                                  !.child = [state |-> "running", cmd |-> "run",
                                             exits |-> exits]]
    /\ UNCHANGED <<jobVars, rd, aside>>

(* executor.go 84, docker.go 239: CombinedOutput returns when the process  *)
(* has exited, by itself or killed; a killed process and a non-zero exit   *)
(* give an *exec.ExitError (ExitCode() is -1 for a signalled process)      *)
CommandWait ==
    /\ ex.pc = "running"
    /\ \/ /\ ex.child.state = "killed"
          /\ ex' = [ex EXCEPT !.pc = "check", !.child = NoChild,
                              !.cmdErr = <<ExitError(-1)>>]
       \/ /\ ex.child.state = "running"
          /\ ex.child.exits # "loop"
          /\ ex' = [ex EXCEPT !.pc = "check", !.child = NoChild,
                              !.cmdErr = IF ex.child.exits = "0" THEN <<>>
                                         ELSE <<ExitError(1)>>]
    /\ UNCHANGED <<jobVars, rd, aside>>

(* executor.go 90-94, docker.go 245-249 *)
CheckDeadline ==
    /\ ex.pc = "check"
    /\ ex' = IF ex.ctx = "expired"
             THEN Return(<<TimedOutResult>>, <<>>)
             ELSE [ex EXCEPT !.pc = "exitcode"]
    /\ UNCHANGED <<jobVars, rd, aside>>

(* executor.go 97-106, docker.go 252-261, from the error of CombinedOutput *)
ResultOf(cmdErr) ==
    IF cmdErr = <<>>
    THEN ExitResult(0)
    ELSE IF cmdErr[1].isExitError
         THEN ExitResult(cmdErr[1].ExitCode)
         ELSE [Stdout |-> "", Stderr |-> cmdErr[1].Error, ExitCode |-> -1]

(* executor.go 97-108, docker.go 252-263 *)
GetExitCode ==
    /\ ex.pc = "exitcode"
    /\ ex' = Return(<<ResultOf(ex.cmdErr)>>, <<>>)
    /\ UNCHANGED <<jobVars, rd, aside>>

ConfiguredKinds == {"docker", "containerized"}

ExecNext ==
    \/ \E k \in ExecKinds, p \in ExecFilePaths, t \in ExecTimeouts :
          ExecuteFileBegin(k, p, t)
    \/ \E k \in ConfiguredKinds, p \in ExecFilePaths, t \in ExecTimeouts,
          r \in BOOLEAN, n \in BOOLEAN :
          ExecuteFileBeginConfigured(k, p, t, r, n)
    \/ ExecuteFileLanguage
    \/ ExecuteFileContext
    \/ DeadlineExpires
    \/ \E available \in BOOLEAN : isDockerAvailable(available)
    \/ ceCommandForLanguage
    \/ \E imageIsLocal \in BOOLEAN : pullImageInspect(imageIsLocal)
    \/ pullImageInspected
    \/ \E pullSucceeds \in BOOLEAN : pullImagePull(pullSucceeds)
    \/ pullImagePulled
    \/ \E installed \in BOOLEAN, exits \in ChildExits : CommandStart(installed, exits)
    \/ CommandWait
    \/ CheckDeadline
    \/ GetExitCode

SpecExec == Init /\ [][ExecNext]_vars

----------------------------------------------------------------------------
(* Execute(language, code) of the executors: the temporary directory, the  *)
(* source file written into it, the ExecuteFile call, and the deferred     *)
(* clean-up.  "container" is the ContainerExecutor of pkg/executor, whose  *)
(* helpers are placeholders.                                                *)

TempDirExecutors == {"local", "docker", "secure", "containerized"}
ExecutorKinds == TempDirExecutors \cup {"container"}
CallLanguages == {"python", "cobol"}
CallTimeouts == {0, 5}
TempSuffixes == {"1", "2"}

(* The pattern each executor passes to os.MkdirTemp("", pattern) *)
TempPattern(kind) ==
    CASE kind = "local" -> "forgeai-"
      [] kind = "docker" -> "forgeai-docker-"
      [] kind = "secure" -> "forgeai-secure-"
      [] kind = "containerized" -> "forgeai-container-"

(* os.MkdirTemp: the pattern with its * replaced by a random string *)
TempName(pattern, suffix) == "/tmp/" \o pattern \o suffix

(* ContainerExecutor.getFileExtension *)
getFileExtension(language) ==
    CASE language = "python" -> "py"
      [] language = "go" -> "go"
      [] language = "javascript" -> "js"
      [] OTHER -> "txt"

(* os.RemoveAll(dir) that removes nothing *)
RemoveNothing(files, dir) == files

(* os.RemoveAll(dir): the directory and everything in it are gone; a path  *)
(* that does not exist is left as it is                                     *)
RemoveAll(files, dir) == [d \in DOMAIN files \ {dir} |-> files[d]]

(* Execute is entered *)
ExecuteBegin(kind, language, timeout) ==
    /\ call.pc \in {"idle", "returned"}
    /\ call' = [pc |-> "mkdir", kind |-> kind, language |-> language,
                timeout |-> timeout, tempDir |-> "", created |-> <<>>,
                filePath |-> NoPath, result |-> <<>>, err |-> <<>>,
                ranFile |-> FALSE, spawned |-> {}]
    /\ UNCHANGED <<jobVars, rd, ex, fs, cli, plug, tf, pf>>

(* os.MkdirTemp (executor.go 35-39, docker.go 47-51, part_010 32-36,       *)
(* containerized.go 36-40); ContainerExecutor.createTempDir returns a      *)
(* fixed path and creates nothing                                           *)
MkdirTemp(ok, suffix) ==
    /\ call.pc = "mkdir"
    /\ IF call.kind = "container"
       THEN /\ call' = [call EXCEPT !.pc = "write", !.tempDir = "/tmp/forgeai-container"]
            /\ UNCHANGED fs
       ELSE IF ~ok
            THEN /\ call' = [call EXCEPT !.pc = "returned",
                                         !.err = <<"failed to create temp directory">>]
                 /\ UNCHANGED fs
            ELSE LET dir == TempName(TempPattern(call.kind), suffix)
                 IN /\ dir \notin DOMAIN fs
                    /\ fs' = fs @@ (dir :> {})
                    /\ call' = [call EXCEPT !.pc = "write", !.tempDir = dir,
                                            !.created = <<dir>>]
    /\ UNCHANGED <<jobVars, rd, ex, cli, plug, tf, pf>>

(* writeCodeToFile (executor.go 117-139 and its copies) and the error      *)
(* return of Execute; ContainerExecutor.writeCodeToFile only builds a path *)
writeCodeToFile(ok) ==
    /\ call.pc = "write"
    /\ IF call.kind = "container"
       THEN /\ call' = [call EXCEPT !.pc = "execfile",
                           !.filePath = <<call.tempDir, "main",
                                          "." \o getFileExtension(call.language)>>]
            /\ UNCHANGED fs
       ELSE IF CodeFileName(call.language) = <<>>
            THEN /\ call' = [call EXCEPT !.pc = "cleanup",
                                !.err = <<"failed to write code to file: unsupported language: "
                                            \o call.language>>]
                 /\ UNCHANGED fs
            ELSE LET name == CodeFileName(call.language)
                 IN IF ok /\ call.tempDir \in DOMAIN fs
                    THEN /\ fs' = [fs EXCEPT ![call.tempDir] = @ \cup {name[1] \o name[2]}]
                         /\ call' = [call EXCEPT !.pc = "execfile",
                                         !.filePath = <<call.tempDir, name[1], name[2]>>]
                    ELSE /\ call' = [call EXCEPT !.pc = "cleanup",
                                         !.err = <<"failed to write code to file: write error">>]
                         /\ UNCHANGED fs
    /\ UNCHANGED <<jobVars, rd, ex, cli, plug, tf, pf>>

(* return e.ExecuteFile(ctx, filePath): the call is made *)
ExecuteCallsExecuteFile ==
    /\ call.pc = "execfile"
    /\ call.kind # "container"
    /\ ex.pc \in {"idle", "returned"}
    /\ ex' = BeginRecord(call.kind, call.filePath, call.timeout)
    /\ call' = [call EXCEPT !.pc = "running", !.ranFile = TRUE]
    /\ UNCHANGED <<jobVars, rd, fs, cli, plug, tf, pf>>

(* The program under execution writes a file into its working directory *)
ChildWritesFile ==
    /\ call.pc = "running"
    /\ ex.pc = "running"
    /\ ex.child.state = "running"
    /\ call.tempDir \in DOMAIN fs
    /\ fs' = [fs EXCEPT ![call.tempDir] = @ \cup {"out.txt"}]
    /\ UNCHANGED <<jobVars, rd, ex, call, cli, plug, tf, pf>>

(* ExecuteFile returns to Execute *)
ExecuteFileReturns ==
    /\ call.pc = "running"
    /\ ex.pc = "returned"
    /\ call' = [call EXCEPT !.pc = "cleanup", !.result = ex.result, !.err = ex.err,
                            !.spawned = ex.spawned]
    /\ ex' = [pc |-> "idle"]
    /\ UNCHANGED <<jobVars, rd, fs, cli, plug, tf, pf>>

(* The placeholder result of ContainerExecutor.runContainer *)
PlaceholderResult ==
    [Stdout |-> "Container execution would run python code in python:3.9-alpine container",
     Stderr |-> "", ExitCode |-> 0]

(* ContainerExecutor.ExecuteFile (executor.go 235-273): getLanguageFromFile *)
(* returns "python" and isLanguageSupported returns true for every file,   *)
(* runContainer returns the placeholder                                     *)
ContainerExecuteFile ==
    /\ call.pc = "execfile"
    /\ call.kind = "container"
    /\ call' = [call EXCEPT !.pc = "cleanup", !.ranFile = TRUE,
                            !.result = <<PlaceholderResult>>, !.err = <<>>]
    /\ UNCHANGED <<jobVars, rd, ex, fs, cli, plug, tf, pf>>

(* defer os.RemoveAll(tempDir) runs and Execute returns;                   *)
(* ContainerExecutor.cleanupTempDir does nothing                            *)
ExecuteReturns ==
    /\ call.pc = "cleanup"
    /\ fs' = IF call.kind = "container" THEN fs ELSE RemoveAll(fs, call.tempDir)
    /\ call' = [call EXCEPT !.pc = "returned"]
    /\ UNCHANGED <<jobVars, rd, ex, cli, plug, tf, pf>>

(* Another process of the host creates a temporary directory of its own *)
OtherMkdirTemp(suffix) ==
    /\ TempName("forgeai-", suffix) \notin DOMAIN fs
    /\ fs' = fs @@ (TempName("forgeai-", suffix) :> {"main.py"})
    /\ UNCHANGED <<jobVars, rd, ex, call, cli, plug, tf, pf>>

CallNext ==
    \/ \E k \in ExecutorKinds, l \in CallLanguages, t \in CallTimeouts :
          ExecuteBegin(k, l, t)
    \/ \E ok \in BOOLEAN, x \in TempSuffixes : MkdirTemp(ok, x)
    \/ \E ok \in BOOLEAN : writeCodeToFile(ok)
    \/ ExecuteCallsExecuteFile
    \/ ChildWritesFile
    \/ ExecuteFileReturns
    \/ ContainerExecuteFile
    \/ ExecuteReturns
    \/ \E x \in TempSuffixes : OtherMkdirTemp(x)
    \/ ExecuteFileLanguage
    \/ ExecuteFileContext
    \/ DeadlineExpires
    \/ \E available \in BOOLEAN : isDockerAvailable(available)
    \/ ceCommandForLanguage
    \/ \E imageIsLocal \in BOOLEAN : pullImageInspect(imageIsLocal)
    \/ pullImageInspected
    \/ \E pullSucceeds \in BOOLEAN : pullImagePull(pullSucceeds)
    \/ pullImagePulled
    \/ \E installed \in BOOLEAN, exits \in ChildExits : CommandStart(installed, exits)
    \/ CommandWait
    \/ CheckDeadline
    \/ GetExitCode

SpecCall == Init /\ [][CallNext]_vars

----------------------------------------------------------------------------
(* The plugin registry client, the local plugin directory and the plugin   *)
(* manager.  plug.dirs is the local plugin directory: each subdirectory    *)
(* with its files and their contents.  plug.plugins is Manager.plugins,    *)
(* plug.loaded the manifests loaded so far, in load order.                  *)

MaxLoads == 3

(* Names of plugin subdirectories, in the order os.ReadDir lists them *)
PluginOrder == <<"ruby", "rust">>
PluginNames == {"ruby", "rust"}

(* File contents: a manifest as JSON text, a plugin binary, or the start   *)
(* of one                                                                   *)
ManifestJSON(name, languages) == [kind |-> "json", name |-> name, languages |-> languages]
Binary(name) == [kind |-> "binary", name |-> name, languages |-> <<>>]
Partial(name) == [kind |-> "partial", name |-> name, languages |-> <<>>]
NotJSON == [kind |-> "text", name |-> "", languages |-> <<>>]

(* What GET /v1/plugins/{name} of the registry can answer: the PluginInfo *)
(* of the plugin asked for, in one of its published versions               *)
RegistryInfos ==
    {[Name |-> "rust", Languages |-> <<"rust">>],
     [Name |-> "rust", Languages |-> <<"rust", "python">>],
     [Name |-> "ruby", Languages |-> <<"ruby", "python">>],
     [Name |-> "ruby", Languages |-> <<>>]}

GetPlugin(name) == {info \in RegistryInfos : info.Name = name}

PluginLanguages == {"rust", "ruby", "python"}

(* The points at which DownloadPlugin can fail, "none" for success *)
FailPoints ==
    {"none", "metadata", "mkdir", "download", "status", "create", "copy", "chmod",
     "manifest"}

NoError == <<>>

(* json.MarshalIndent that leaves the languages out *)
MarshalNameOnly(m) == ManifestJSON(m.Name, <<>>)

(* json.MarshalIndent(plugin.Manifest{...}) *)
MarshalManifest(m) == ManifestJSON(m.Name, m.Languages)

(* json.Unmarshal(data, &manifest): <<manifest>>, or <<>> for a parse error *)
UnmarshalManifest(data) ==
    IF data.kind = "json"
    THEN <<[Name |-> data.name, Languages |-> data.languages]>>
    ELSE <<>>

(* A directory with one more (or one rewritten) file *)
WithFile(dir, file, data) ==
    [f \in DOMAIN dir \cup {file} |-> IF f = file THEN data ELSE dir[f]]

(* os.MkdirAll(destDir/name): an existing directory is left as it is *)
MkdirAll(dirs, name) ==
    [n \in DOMAIN dirs \cup {name} |-> IF n \in DOMAIN dirs THEN dirs[n] ELSE <<>>]

(* RegistryClient.DownloadPlugin(name, version, destDir) where the registry *)
(* answers info and the step failAt fails: the directory afterwards and    *)
(* the error                                                                *)
DownloadPlugin(dirs, name, info, failAt) ==
    LET made == MkdirAll(dirs, name)
        put(data) == [made EXCEPT ![name] = WithFile(made[name], info.Name, data)]
        whole == put(Binary(info.Name))
        manifest == MarshalManifest([Name |-> info.Name, Languages |-> info.Languages])
    IN CASE failAt = "metadata" ->
              [dirs |-> dirs, err |-> <<"failed to get plugin info">>]
         [] failAt = "mkdir" ->
              [dirs |-> dirs, err |-> <<"failed to create plugin directory">>]
         [] failAt = "download" ->
              [dirs |-> made, err |-> <<"failed to download plugin binary">>]
         [] failAt = "status" ->
              [dirs |-> made, err |-> <<"download failed with status 404">>]
         [] failAt = "create" ->
              [dirs |-> made, err |-> <<"failed to create binary file">>]
         [] failAt = "copy" ->
              [dirs |-> put(Partial(info.Name)), err |-> <<"failed to save binary">>]
         [] failAt = "chmod" ->
              [dirs |-> whole, err |-> <<"failed to set executable permissions">>]
         [] failAt = "manifest" ->
              [dirs |-> whole, err |-> <<"failed to write manifest">>]
         [] OTHER ->
              [dirs |-> [whole EXCEPT ![name] = WithFile(@, "manifest.json", manifest)],
               err |-> NoError]

(* Manager.ListPlugins(dir): the subdirectories, in directory order *)
ListPlugins(dirs) ==
    LET in(n) == n \in DOMAIN dirs
    IN SelectSeq(PluginOrder, in)

(* NewExternalExecutor(binaryPath, languages) *)
NewExternalExecutor(binaryPath, languages) ==
    [binaryPath |-> binaryPath, languages |-> languages]

(* The loop of LoadPlugin that keeps the executor a language already has *)
RegisterIfAbsent(plugins, executor, languages) ==
    [l \in DOMAIN plugins \cup Range(languages) |->
        IF l \in DOMAIN plugins THEN plugins[l] ELSE executor]

(* LoadPlugin 134-136: m.plugins[lang] = executor for each language of the *)
(* manifest                                                                 *)
Register(plugins, executor, languages) ==
    [l \in DOMAIN plugins \cup Range(languages) |->
        IF l \in Range(languages) THEN executor ELSE plugins[l]]

(* Manager.LoadPlugin(pluginDir) on the table plugins: the table           *)
(* afterwards, the manifest that was loaded, and the error                  *)
LoadPlugin(plugins, dirs, name) ==
    IF name \notin DOMAIN dirs \/ "manifest.json" \notin DOMAIN dirs[name]
    THEN [plugins |-> plugins, manifest |-> <<>>, err |-> <<"failed to read manifest">>]
    ELSE LET parsed == UnmarshalManifest(dirs[name]["manifest.json"])
         IN IF parsed = <<>>
            THEN [plugins |-> plugins, manifest |-> <<>>,
                  err |-> <<"failed to parse manifest">>]
            ELSE LET manifest == parsed[1]
                     file == IF manifest.Name \in DOMAIN dirs[name]
                             THEN manifest.Name ELSE manifest.Name \o ".exe"
                 IN IF file \notin DOMAIN dirs[name]
                    THEN [plugins |-> plugins, manifest |-> <<>>,
                          err |-> <<"plugin executable not found">>]
                    ELSE LET executor ==
                                 NewExternalExecutor(<<name, file>>, manifest.Languages)
                         IN [plugins |-> Register(plugins, executor, manifest.Languages),
                             manifest |-> <<manifest>>, err |-> NoError]

(* Manager.LoadPluginsFromDir(dir): every subdirectory in directory order, *)
(* errors of LoadPlugin are logged and skipped                              *)
RECURSIVE LoadEach(_, _, _)
LoadEach(plugins, dirs, names) ==
    IF names = <<>>
    THEN plugins
    ELSE LoadEach(LoadPlugin(plugins, dirs, Head(names)).plugins, dirs, Tail(names))

(* A LoadPluginsFromDir that gives up at the first plugin that fails *)
LoadPluginsUntilError(plugins, dirs) ==
    LET names == ListPlugins(dirs)
        ok(i) == LoadPlugin(<< >>, dirs, names[i]).err = NoError
        stop == IF \A i \in 1..Len(names) : ok(i) THEN Len(names)
                ELSE (CHOOSE i \in 1..Len(names) :
                         ~ok(i) /\ \A j \in 1..(i - 1) : ok(j)) - 1
    IN LoadEach(plugins, dirs, SubSeq(names, 1, stop))

LoadPluginsFromDir(plugins, dirs) == LoadEach(plugins, dirs, ListPlugins(dirs))

(* Manager.GetExecutor(language): <<executor>> and ok *)
GetExecutor(plugins, language) ==
    IF language \in DOMAIN plugins
    THEN [executor |-> <<plugins[language]>>, ok |-> TRUE]
    ELSE [executor |-> <<>>, ok |-> FALSE]

(* os.RemoveAll(LocalDir/name) that empties the local directory *)
RemoveEveryPlugin(dirs, name) == << >>

(* PluginManager.RemovePlugin: os.RemoveAll(filepath.Join(LocalDir, name)) *)
RemovePluginDir(dirs, name) == RemoveAll(dirs, name)

(* PluginManager.InstallPlugin(name, "latest"), as installPlugin of the    *)
(* plugin tool calls it                                                     *)
InstallPlugin(name, info, failAt) ==
    /\ info \in GetPlugin(name)
    /\ LET r == DownloadPlugin(plug.dirs, name, info, failAt)
       IN plug' = [plug EXCEPT !.dirs = r.dirs,
                               !.last = [op |-> "install", name |-> name,
                                         info |-> info, err |-> r.err]]
    /\ UNCHANGED <<jobVars, rd, ex, fs, call, cli, tf, pf>>

(* PluginManager.RemovePlugin(name), as removePlugin of the plugin tool    *)
(* calls it                                                                 *)
RemovePlugin(name) ==
    /\ plug' = [plug EXCEPT !.dirs = RemovePluginDir(plug.dirs, name),
                            !.last = [op |-> "remove", name |-> name, err |-> NoError]]
    /\ UNCHANGED <<jobVars, rd, ex, fs, call, cli, tf, pf>>

(* PluginManager.ListInstalledPlugins *)
ListInstalledPlugins ==
    /\ plug' = [plug EXCEPT !.last = [op |-> "list", names |-> ListPlugins(plug.dirs)]]
    /\ UNCHANGED <<jobVars, rd, ex, fs, call, cli, tf, pf>>

(* Manager.LoadPlugin(LocalDir/name) on the manager's table *)
ManagerLoadPlugin(name) ==
    /\ Len(plug.loaded) < MaxLoads
    /\ LET r == LoadPlugin(plug.plugins, plug.dirs, name)
       IN plug' = [plug EXCEPT
                     !.plugins = r.plugins,
                     !.loaded = IF r.err = NoError
                                THEN Append(@, NewExternalExecutor(
                                                 <<name, r.manifest[1].Name>>,
                                                 r.manifest[1].Languages))
                                ELSE @,
                     !.last = [op |-> "load", name |-> name, err |-> r.err]]
    /\ UNCHANGED <<jobVars, rd, ex, fs, call, cli, tf, pf>>

(* Manager.GetExecutor(language) *)
ManagerGetExecutor(language) ==
    /\ plug' = [plug EXCEPT !.last = [op |-> "get", language |-> language,
                                      got |-> GetExecutor(plug.plugins, language)]]
    /\ UNCHANGED <<jobVars, rd, ex, fs, call, cli, tf, pf>>

(* The plugin tool: install, remove, list *)
PlugNext ==
    \/ \E n \in PluginNames, i \in RegistryInfos, f \in FailPoints : InstallPlugin(n, i, f)
    \/ \E n \in PluginNames : RemovePlugin(n)
    \/ ListInstalledPlugins

SpecPlug == Init /\ [][PlugNext]_vars

(* A process that installs plugins and loads them into its manager *)
LoadFailPoints == {"none", "manifest"}

LoadNext ==
    \/ \E n \in PluginNames, i \in RegistryInfos, f \in LoadFailPoints :
          InstallPlugin(n, i, f)
    \/ \E n \in PluginNames : ManagerLoadPlugin(n)
    \/ \E l \in PluginLanguages : ManagerGetExecutor(l)

SpecLoad == Init /\ [][LoadNext]_vars

(* The names the plugin tool can be given, as path components: "", ".",   *)
(* "..", "../data" and a plugin name                                        *)
PathNames == {<< >>, <<".">>, <<"..">>, <<"..", "data">>, <<"rust">>}

(* filepath.Clean of a relative path that does not climb above the working *)
(* directory: "." and empty components are dropped, ".." drops the         *)
(* component before it; << >> is "."                                        *)
RECURSIVE Clean(_, _)
Clean(done, rest) ==
    IF rest = << >> THEN done
    ELSE IF Head(rest) \in {"", "."} THEN Clean(done, Tail(rest))
    ELSE IF Head(rest) = ".." THEN Clean(SubSeq(done, 1, Len(done) - 1), Tail(rest))
    ELSE Clean(Append(done, Head(rest)), Tail(rest))

(* removePlugin(os.Args[2]) with LocalDir "./plugins": os.RemoveAll of     *)
(* filepath.Join(LocalDir, name).  RemoveAll refuses "." with EINVAL,      *)
(* removes the plugin directory with everything in it when the path is     *)
(* LocalDir itself, one plugin's subdirectory, or an entry of the working  *)
(* directory next to LocalDir.                                              *)
RemovePluginNamed(name) ==
    /\ LET path == Clean(<< >>, <<".", "plugins">> \o name)
       IN plug' = [plug EXCEPT
                     !.dirs = IF path = <<"plugins">> THEN << >>
                              ELSE IF Len(path) = 2 /\ path[1] = "plugins"
                                   THEN RemovePluginDir(@, path[2])
                                   ELSE @,
                     !.outside = IF Len(path) = 1 THEN @ \ {path[1]} ELSE @,
                     !.last = [op |-> "remove", arg |-> name,
                               err |-> IF path = << >>
                                       THEN <<"RemoveAll .: invalid argument">>
                                       ELSE NoError]]
    /\ UNCHANGED <<jobVars, rd, ex, fs, call, cli, tf, pf>>

PathNext ==
    \/ \E n \in PluginNames : \E i \in GetPlugin(n), f \in LoadFailPoints :
          InstallPlugin(n, i, f)
    \/ \E name \in PathNames : RemovePluginNamed(name)
    \/ ListInstalledPlugins

SpecPath == Init /\ [][PathNext]_vars

(* What a plugin subdirectory made by hand can hold (README, "Plugin       *)
(* manifest"): nothing, the binary alone, an unparsable manifest, a        *)
(* manifest without its executable, and a complete plugin with the         *)
(* executable under the bare name or the .exe name                          *)
HandMadeDirs(name) ==
    LET manifest == ManifestJSON(name, <<name, "python">>)
    IN {<< >>,
        WithFile(<< >>, name, Binary(name)),
        WithFile(WithFile(<< >>, name, Binary(name)), "manifest.json", NotJSON),
        WithFile(<< >>, "manifest.json", manifest),
        WithFile(WithFile(<< >>, name \o ".exe", Binary(name)), "manifest.json", manifest),
        WithFile(WithFile(<< >>, name, Binary(name)), "manifest.json", manifest)}

(* A plugin subdirectory is put into the plugin directory *)
PlacePlugin(name, dir) ==
    /\ plug' = [plug EXCEPT !.dirs = WithFile(plug.dirs, name, dir),
                            !.last = [op |-> "place", name |-> name]]
    /\ UNCHANGED <<jobVars, rd, ex, fs, call, cli, tf, pf>>

(* Manager.LoadPluginsFromDir(LocalDir) on the manager's table *)
ManagerLoadPluginsFromDir ==
    /\ Len(plug.loaded) + Len(ListPlugins(plug.dirs)) <= MaxLoads
    /\ LET names == ListPlugins(plug.dirs)
           ok(n) == LoadPlugin(<< >>, plug.dirs, n).err = NoError
           good == SelectSeq(names, ok)
       IN plug' = [plug EXCEPT
                     !.plugins = LoadPluginsFromDir(plug.plugins, plug.dirs),
                     !.loaded = @ \o [i \in 1..Len(good) |->
                                        LoadPlugin(<< >>, plug.dirs, good[i]).plugins["python"]],
                     !.last = [op |-> "loaddir", names |-> names, err |-> NoError]]
    /\ UNCHANGED <<jobVars, rd, ex, fs, call, cli, tf, pf>>

DirNext ==
    \/ \E n \in PluginNames : \E d \in HandMadeDirs(n) : PlacePlugin(n, d)
    \/ \E n \in PluginNames : ManagerLoadPlugin(n)
    \/ ManagerLoadPluginsFromDir

SpecDir == Init /\ [][DirNext]_vars

----------------------------------------------------------------------------
(* Claims about the job table *)

Terminal == {"completed", "failed", "cancelled"}

StatusSteps ==
    {<<"pending", "running">>, <<"pending", "completed">>, <<"pending", "failed">>,
     <<"pending", "cancelled">>, <<"running", "completed">>, <<"running", "failed">>,
     <<"running", "cancelled">>}

(* C1: a job starts pending and its status moves only along               *)
(* pending -> completed, pending -> failed, pending -> running ->          *)
(* {completed, failed, cancelled}; no status follows completed, failed or  *)
(* cancelled.  (pending -> cancelled, which the Job invariants of the spec *)
(* allow, is let through here, so a violation is a step the claim forbids  *)
(* under either reading.)                                                   *)
C1_StatusSequence ==
    [][/\ \A j \in 1..Len(heap) :
             heap'[j].Status # heap[j].Status =>
                 <<heap[j].Status, heap'[j].Status>> \in StatusSteps
       /\ \A j \in (Len(heap) + 1)..Len(heap') : heap'[j].Status = "pending"]_vars

(* C3: CancelJob(id) returns true, sets cancelled and stamps completed_at  *)
(* exactly when the id is in the table with status pending or running;     *)
(* otherwise it returns false, DELETE answers 404, and no job changes.     *)
C3_CancelExactly ==
    [][\A id \in JobIDs :
         (ret'.op = "CancelJob" /\ handleCancelJob(id)) =>
            IF id \in DOMAIN jobs /\ heap[jobs[id]].Status \in {"pending", "running"}
            THEN /\ ret' = [op |-> "CancelJob", ok |-> TRUE]
                 /\ http' = 200
                 /\ heap' = [heap EXCEPT ![jobs[id]] =
                               [@ EXCEPT !.Status = "cancelled", !.CompletedAt = clock]]
                 /\ jobs' = jobs
            ELSE /\ ret' = [op |-> "CancelJob", ok |-> FALSE]
                 /\ http' = 404
                 /\ heap' = heap
                 /\ jobs' = jobs]_vars

(* C3 witness: a cancel request was just refused for a job that is in the  *)
(* table and already terminal, and another was accepted before             *)
C3_Witness ==
    /\ ret = [op |-> "CancelJob", ok |-> FALSE]
    /\ http = 404
    /\ \E id \in DOMAIN jobs : heap[jobs[id]].Status = "completed"
    /\ \E j \in 1..Len(heap) : heap[j].Status = "cancelled" /\ heap[j].CompletedAt # ZeroTime

(* C4: Result is non-nil iff Status = completed, and Error is non-empty    *)
(* iff Status = failed, for every job in every reachable state.            *)
C4_ResultIffCompleted ==
    \A j \in 1..Len(heap) :
        /\ (heap[j].Result # <<>>) <=> (heap[j].Status = "completed")
        /\ (heap[j].Error # "") <=> (heap[j].Status = "failed")

(* C4 witness: a job whose worker finished with a result is completed,    *)
(* beside a job whose worker finished with an error, which is failed and   *)
(* holds no result                                                          *)
C4_Witness ==
    /\ \E j \in 1..Len(heap) :
          /\ heap[j].Result # <<>>
          /\ heap[j].Status = "completed"
          /\ wpc[j] = "done"
    /\ \E j \in 1..Len(heap) :
          /\ heap[j].Error # ""
          /\ heap[j].Status = "failed"
          /\ heap[j].Result = <<>>
          /\ wpc[j] = "done"

(* C5: two created jobs never share an id, and a job whose id was sent to  *)
(* a client is what GetJob returns for that id.                            *)
C5_UniqueIds ==
    /\ \A i, j \in 1..Len(heap) : i # j => heap[i].ID # heap[j].ID
    /\ \A j \in 1..Len(heap) : hpc[j] = "done" => GetJob(heap[j].ID) = <<j, TRUE>>

(* C6: the 201 response carries status "pending".                          *)
C6_CreatedIsPending ==
    http = 201 => ret.status = "pending"

(* C8: once created_at, started_at and completed_at are all set,           *)
(* created_at <= started_at <= completed_at.                               *)
C8_TimestampOrder ==
    \A j \in 1..Len(heap) :
        (heap[j].CreatedAt # ZeroTime /\ heap[j].StartedAt # ZeroTime
            /\ heap[j].CompletedAt # ZeroTime)
        => (heap[j].CreatedAt <= heap[j].StartedAt
            /\ heap[j].StartedAt <= heap[j].CompletedAt)

BodyOf(kind, job) ==
    [status |-> job.Status, created_at |-> job.CreatedAt,
     started_at |-> job.StartedAt, completed_at |-> job.CompletedAt,
     result |-> IF kind = "get" /\ job.Status = "completed" THEN job.Result ELSE <<>>,
     error |-> IF kind = "get" /\ job.Status = "failed" THEN job.Error ELSE ""]

(* C2: every GET /v1/jobs/{id} response and every entry of a GET /v1/jobs  *)
(* response reports fields that the job held together at one instant.      *)
C2_SnapshotResponse ==
    rd.pc = "sent" =>
        \A i \in DOMAIN rd.out :
            \E snap \in rd.seen[rd.out[i].job] :
                rd.out[i].body = BodyOf(rd.kind, snap)

(* C7: every accepted job eventually has completed_at stamped and a        *)
(* terminal status (completed or failed) written by its worker.            *)
C7_EveryJobFinishes ==
    \A j \in 1..MaxLiveJobs :
        (j <= Len(heap)) ~>
            (/\ j <= Len(heap)
             /\ wpc[j] = "done"
             /\ heap[j].CompletedAt # ZeroTime
             /\ heap[j].Status \in {"completed", "failed"})

(* C10: for the local and the Docker executor with a positive timeout,     *)
(* a call during which the deadline expired (at any step up to the         *)
(* executor's own check of the context, the image check and pull           *)
(* included, on a host where docker is installed) returns a result and no  *)
(* error, with exit_code = -1 and stderr = "Execution timed out".          *)
C10_TimeoutSentinel ==
    (/\ ex.pc = "returned"
     /\ ex.timeout > 0
     /\ ex.expired_at \notin {"none", "exitcode"}
     /\ ex.err # DockerUnavailable)
    => (/\ ex.err = <<>>
        /\ ex.result # <<>>
        /\ ex.result[1].ExitCode = -1
        /\ ex.result[1].Stderr = "Execution timed out")

----------------------------------------------------------------------------
(* Claims about Execute(language, code) *)

C12_UnsupportedLanguage ==
    (/\ call.pc = "returned"
     /\ call.kind \in {"local", "container", "docker"}
     /\ call.language \notin SupportedLanguages
     /\ call.tempDir # "")
    => (/\ call.err = <<"failed to write code to file: unsupported language: "
                          \o call.language>>
        /\ call.result = <<>>
        /\ ~call.ranFile
        /\ call.spawned = {})

----------------------------------------------------------------------------
(* The forgeai command line (pkg/cli): the flags, getExecutor, the          *)
(* composite executor and the plugin executor, on the variable cli.  The    *)
(* plugin directory of --plugin-dir is the directory the plugin command     *)
(* installs into (plug.dirs).                                                *)

CliCommands == {"run", "exec"}
CliLanguages == {"python", "rust", "cobol"}
CliFiles == {<<"/srv", "job", ".py">>, <<"/srv", "lib", ".rs">>, <<"/srv", "notes", ".txt">>}
CliPluginDirs == {"", "./plugins"}
CliTimeouts == {0, 5, 1000}
CliMemoryLimits == {0, 32, 2048}

(* cli.go 244-257 *)
CliGetLanguageFromFile(filePath) ==
    CASE Ext(filePath) = ".py" -> "python"
      [] Ext(filePath) = ".go" -> "go"
      [] Ext(filePath) = ".js" -> "javascript"
      [] Ext(filePath) = ".rs" -> "rust"
      [] OTHER -> "unknown"

(* executor.NewLocalExecutor, container.NewDockerExecutor: the limits of a *)
(* new executor, Timeout in seconds                                         *)
NewLocalExecutor == [Timeout |-> 30, MemoryLimit |-> 128]
NewDockerExecutor == [Timeout |-> 30, MemoryLimit |-> 128]

(* getExecutor, cli.go 144-178 *)
getExecutor(pluginDir, containerized, timeout, memoryLimit, dirs) ==
    IF pluginDir # ""
    THEN [type |-> "composite",
          PluginManager |-> LoadPluginsFromDir(<< >>, dirs),
          LocalExecutor |-> NewLocalExecutor,
          DockerExecutor |-> NewDockerExecutor,
          UseContainer |-> containerized]
    ELSE IF containerized
         THEN [type |-> "docker",
               PluginManager |-> << >>,
               LocalExecutor |-> NewLocalExecutor,
               DockerExecutor |-> [Timeout |-> timeout, MemoryLimit |-> memoryLimit],
               UseContainer |-> TRUE]
         ELSE [type |-> "local",
               PluginManager |-> << >>,
               LocalExecutor |-> [Timeout |-> timeout, MemoryLimit |-> memoryLimit],
               DockerExecutor |-> NewDockerExecutor,
               UseContainer |-> FALSE]

(* A composite executor that prefers its built-in executors for the        *)
(* languages they support                                                   *)
CompositeRouteBuiltinFirst(c, language) ==
    IF GetExecutor(c.PluginManager, language).ok /\ language \notin SupportedLanguages
    THEN [target |-> "plugin", plugin |-> GetExecutor(c.PluginManager, language).executor,
          builtin |-> <<>>]
    ELSE IF c.UseContainer
         THEN [target |-> "docker", plugin |-> <<>>, builtin |-> <<c.LocalExecutor>>]
         ELSE [target |-> "local", plugin |-> <<>>, builtin |-> <<c.LocalExecutor>>]

(* CompositeExecutor.Execute 188-202, ExecuteFile 204-221: the executor    *)
(* the call is handed to; the Docker executor first gets the Timeout and   *)
(* MemoryLimit of the LocalExecutor field                                   *)
CompositeRoute(c, language) ==
    IF GetExecutor(c.PluginManager, language).ok
    THEN [target |-> "plugin", plugin |-> GetExecutor(c.PluginManager, language).executor,
          builtin |-> <<>>]
    ELSE IF c.UseContainer
         THEN [target |-> "docker", plugin |-> <<>>, builtin |-> <<c.LocalExecutor>>]
         ELSE [target |-> "local", plugin |-> <<>>, builtin |-> <<c.LocalExecutor>>]

(* The executor getExecutor returned receives the call *)
Route(e, language) ==
    CASE e.type = "composite" -> CompositeRoute(e, language)
      [] e.type = "docker" -> [target |-> "docker", plugin |-> <<>>,
                               builtin |-> <<e.DockerExecutor>>]
      [] e.type = "local" -> [target |-> "local", plugin |-> <<>>,
                              builtin |-> <<e.LocalExecutor>>]

(* What a plugin process prints: sandbox.ExecutionResult as JSON, another  *)
(* JSON object, or text that is not JSON                                    *)
ResultJSON(r) == [kind |-> "json", shape |-> "result", value |-> <<r>>]
OtherJSON == [kind |-> "json", shape |-> "object", value |-> <<>>]
PluginOutputs == {ResultJSON(ExitResult(0)), ResultJSON(ExitResult(1)), OtherJSON,
                  [kind |-> "text", shape |-> "", value |-> <<>>]}

ZeroResult == [Stdout |-> "", Stderr |-> "", ExitCode |-> 0]

(* json.Unmarshal(output, &result): an object without the result's fields  *)
(* leaves the zero value; text that is not JSON is an error                 *)
UnmarshalResult(output) ==
    IF output.kind # "json"
    THEN [result |-> <<>>, err |-> <<"failed to parse result: invalid character">>]
    ELSE IF output.shape = "result"
         THEN [result |-> output.value, err |-> <<>>]
         ELSE [result |-> <<ZeroResult>>, err |-> <<>>]

(* ExternalExecutor.Execute 47-65 and ExecuteFile 68-86: CombinedOutput    *)
(* returns an error when the process could not be started and when it      *)
(* exited with a non-zero status                                            *)
ExternalExecutorReturns(what, started, exitStatus, output) ==
    IF ~started
    THEN [result |-> <<>>, err |-> <<"failed to execute " \o what \o ": no such file">>]
    ELSE IF exitStatus # 0
         THEN [result |-> <<>>, err |-> <<"failed to execute " \o what \o ": exit status 1">>]
         ELSE UnmarshalResult(output)

(* The built-in executor's call, by the Timeout it was given *)
BuiltinReturns(cmd, language, file, target, timeout) ==
    (IF cmd = "run"
     THEN LocalExecuteReturns(language, "print(1)", timeout)
     ELSE LocalExecuteFileReturns(file, "exit", timeout))
    \cup (IF target = "docker" THEN {[result |-> <<>>, err |-> DockerUnavailable]} ELSE {})

(* forgeai [flags] run language code | exec file: cobra has parsed the     *)
(* flags into the package variables (init, cli.go 123-137)                  *)
CliCommand(cmd, language, file, pluginDir, containerized, timeout, memoryLimit) ==
    /\ cli.pc \in {"idle", "done"}
    /\ cli' = [pc |-> "getExecutor", cmd |-> cmd, file |-> file,
               pluginDir |-> pluginDir, containerized |-> containerized,
               timeout |-> timeout, memoryLimit |-> memoryLimit,
               executor |-> <<>>, language |-> language, invoked |-> {},
               plugin |-> <<>>, builtin |-> <<>>, ext |-> <<>>,
               result |-> <<>>, err |-> <<>>]
    /\ UNCHANGED <<jobVars, rd, ex, fs, call, plug, tf, pf>>

(* runCmd / execCmd: exec, err := getExecutor() *)
CliGetExecutor ==
    /\ cli.pc = "getExecutor"
    /\ cli' = [cli EXCEPT !.pc = "execute",
                          !.executor = <<getExecutor(cli.pluginDir, cli.containerized,
                                                     cli.timeout, cli.memoryLimit,
                                                     plug.dirs)>>]
    /\ UNCHANGED <<jobVars, rd, ex, fs, call, plug, tf, pf>>

(* exec.Execute(ctx, language, code) / exec.ExecuteFile(ctx, file) reaches *)
(* the executor that will run the code                                      *)
CliExecute ==
    /\ cli.pc = "execute"
    /\ LET language == IF cli.cmd = "run" THEN cli.language
                       ELSE CliGetLanguageFromFile(cli.file)
           r == Route(cli.executor[1], language)
       IN cli' = [cli EXCEPT !.pc = IF r.target = "plugin" THEN "plugin" ELSE "builtin",
                             !.language = language,
                             !.invoked = @ \cup {r.target},
                             !.plugin = r.plugin,
                             !.builtin = r.builtin]
    /\ UNCHANGED <<jobVars, rd, ex, fs, call, plug, tf, pf>>

(* The plugin executor runs the plugin binary and decodes what it printed *)
CliPluginReturns(started, exitStatus, output) ==
    /\ cli.pc = "plugin"
    /\ LET r == ExternalExecutorReturns(IF cli.cmd = "run" THEN "code" ELSE "file",
                                        started, exitStatus, output)
       IN cli' = [cli EXCEPT !.pc = "done",
                             !.ext = <<[started |-> started, exitStatus |-> exitStatus,
                                        output |-> output]>>,
                             !.result = r.result, !.err = r.err]
    /\ UNCHANGED <<jobVars, rd, ex, fs, call, plug, tf, pf>>

(* The local or Docker executor runs the code with its Timeout *)
CliBuiltinReturns ==
    /\ cli.pc = "builtin"
    /\ \E r \in BuiltinReturns(cli.cmd, cli.language, cli.file,
                               CHOOSE t \in cli.invoked : TRUE,
                               cli.builtin[1].Timeout) :
          cli' = [cli EXCEPT !.pc = "done", !.result = r.result, !.err = r.err]
    /\ UNCHANGED <<jobVars, rd, ex, fs, call, plug, tf, pf>>

(* The plugin installed in the plugin directory between commands *)
CliPluginNames == {"ruby"}

CliNext ==
    \/ \E name \in CliPluginNames : \E info \in GetPlugin(name) :
          InstallPlugin(name, info, "none")
    \/ \E pluginDir \in CliPluginDirs, containerized \in BOOLEAN,
          timeout \in CliTimeouts, memoryLimit \in CliMemoryLimits :
          \E cmd \in CliCommands :
             \E language \in (IF cmd = "run" THEN CliLanguages ELSE {""}),
                file \in (IF cmd = "run" THEN {NoPath} ELSE CliFiles) :
                CliCommand(cmd, language, file, pluginDir, containerized, timeout,
                           memoryLimit)
    \/ CliGetExecutor
    \/ CliExecute
    \/ \E started \in BOOLEAN, exitStatus \in {0, 1}, output \in PluginOutputs :
          CliPluginReturns(started, exitStatus, output)
    \/ CliBuiltinReturns

SpecCli == Init /\ [][CliNext]_vars

----------------------------------------------------------------------------
(* The security test framework (package security, part_010): strings are   *)
(* sequences of characters                                                   *)

MaxText == 2
Characters == {"k", "\n"}
Texts == UNION {[1..n -> Characters] : n \in 0..MaxText}

TestCases ==
    [ShouldBeContained : BOOLEAN, ExpectedExitCode : {0, 1}, ExpectedOutput : Texts]
TestResults == [ExitCode : {-1, 0, 1}, Stdout : Texts, Stderr : {<<>>, <<"k">>}]

(* strings.Contains(s, substr) *)
Contains(s, substr) ==
    \E i \in 0..(Len(s) - Len(substr)) : SubSeq(s, i + 1, i + Len(substr)) = substr

(* validateTestResult 354-357: one trailing newline is cut off *)
TrimNewline(stdout) ==
    IF Len(stdout) > 0 /\ stdout[Len(stdout)] = "\n"
    THEN SubSeq(stdout, 1, Len(stdout) - 1)
    ELSE stdout

(* TestFramework.validateTestResult(test, result), part_010 339-389 *)
validateTestResult(expected, result) ==
    IF expected.ShouldBeContained
    THEN IF result.ExitCode = -1 THEN TRUE
         ELSE IF result.ExitCode # 0 THEN TRUE
         ELSE IF /\ expected.ExpectedOutput # <<>>
                 /\ result.Stdout # <<>>
                 /\ \/ Contains(TrimNewline(result.Stdout), expected.ExpectedOutput)
                    \/ TrimNewline(result.Stdout) = expected.ExpectedOutput
              THEN TRUE
         ELSE result.Stderr # <<>>
    ELSE IF result.ExitCode = expected.ExpectedExitCode
         THEN IF expected.ExpectedOutput # <<>>
              THEN \/ Contains(result.Stdout, expected.ExpectedOutput)
                   \/ result.Stdout = expected.ExpectedOutput
              ELSE TRUE
         ELSE FALSE

(* runTest 333: report.Passed = tf.validateTestResult(test, result) *)
RunTestValidates(expected, result) ==
    /\ tf' = [pc |-> "validated", expected |-> expected, result |-> result,
              Passed |-> validateTestResult(expected, result)]
    /\ UNCHANGED <<jobVars, rd, ex, fs, call, cli, plug, pf>>

TestNext ==
    \/ \E expected \in TestCases, result \in TestResults : RunTestValidates(expected, result)

SpecTest == Init /\ [][TestNext]_vars

----------------------------------------------------------------------------
(* The performance framework (package performance, registry/client.go      *)
(* 245-465): runPerformanceTest on the variable pf.  The ten goroutines    *)
(* run the same closure, so pf.g counts the goroutines at each point of    *)
(* it.  Durations are counted in milliseconds.                              *)

Hour == 3600000
numTests == 10
SemaphoreCap == 5
WarmUps == 3

(* What time.Since(execStart) can read *)
Durations == {2, Hour + 1}

(* runPerformanceTest 335-340: MinTime starts at time.Hour *)
NewMetrics ==
    [TotalExecutions |-> 0, SuccessfulExecutions |-> 0, FailedExecutions |-> 0,
     TotalTime |-> 0, AverageTime |-> 0, MinTime |-> Hour, MaxTime |-> 0]

(* A reset that keeps what the warm-up counted *)
KeepCounters(metrics) == [metrics EXCEPT !.TotalTime = 0]

(* runPerformanceTest 353-355 *)
ResetCounters(metrics) ==
    [metrics EXCEPT !.SuccessfulExecutions = 0, !.FailedExecutions = 0, !.TotalTime = 0]

(* A semaphore that never blocks *)
SendNeverBlocks(held) == TRUE

(* semaphore <- struct{}{} on a channel of capacity 5 can proceed *)
CanSend(held) == held < SemaphoreCap

(* The goroutines that hold the semaphore *)
Holding(g) == g.exec + g.lock + g.release

(* 379-397, under mu: the counters, the total and the running min and max *)
Record(metrics, failed, execDuration) ==
    [metrics EXCEPT
       !.FailedExecutions = IF failed THEN @ + 1 ELSE @,
       !.SuccessfulExecutions = IF failed THEN @ ELSE @ + 1,
       !.TotalTime = @ + execDuration,
       !.MinTime = IF execDuration < @ THEN execDuration ELSE @,
       !.MaxTime = IF execDuration > @ THEN execDuration ELSE @]

PerfFrame == UNCHANGED <<jobVars, rd, ex, fs, call, cli, plug, tf>>

(* runPerformanceTest is entered *)
PerfBegin ==
    /\ pf.pc \in {"idle", "returned"}
    /\ pf' = [pc |-> "warmup", i |-> 0, metrics |-> NewMetrics, wg |-> 0,
              times |-> [d \in Durations |-> 0],
              g |-> [acquire |-> 0, exec |-> 0, lock |-> 0, release |-> 0, done |-> 0]]
    /\ PerfFrame

(* 343-350: one warm-up call of executor.Execute; after the third the     *)
(* counters are reset (353-355)                                            *)
WarmUp(failed) ==
    /\ pf.pc = "warmup"
    /\ LET counted == [pf.metrics EXCEPT
                         !.FailedExecutions = IF failed THEN @ + 1 ELSE @,
                         !.SuccessfulExecutions = IF failed THEN @ ELSE @ + 1]
       IN pf' = IF pf.i + 1 < WarmUps
                THEN [pf EXCEPT !.i = @ + 1, !.metrics = counted]
                ELSE [pf EXCEPT !.i = 0, !.metrics = ResetCounters(counted),
                                !.pc = "spawn"]
    /\ PerfFrame

(* 368-370: wg.Add(1); go func() *)
Spawn ==
    /\ pf.pc = "spawn"
    /\ pf' = [pf EXCEPT !.i = @ + 1, !.wg = @ + 1, !.g.acquire = @ + 1,
                        !.pc = IF pf.i + 1 < numTests THEN "spawn" ELSE "wait"]
    /\ PerfFrame

(* 372: semaphore <- struct{}{}; 375: execStart *)
Acquire ==
    /\ pf.pc \in {"spawn", "wait"}
    /\ pf.g.acquire > 0
    /\ CanSend(Holding(pf.g))
    /\ pf' = [pf EXCEPT !.g.acquire = @ - 1, !.g.exec = @ + 1]
    /\ PerfFrame

(* 376-377: executor.Execute returns *)
PerfExecuteReturns ==
    /\ pf.pc \in {"spawn", "wait"}
    /\ pf.g.exec > 0
    /\ pf' = [pf EXCEPT !.g.exec = @ - 1, !.g.lock = @ + 1]
    /\ PerfFrame

(* 379-397: mu.Lock ... mu.Unlock with the goroutine's err and            *)
(* execDuration, which no other goroutine can see before this point; the  *)
(* slice times is kept as the number of times each duration was appended  *)
RecordExecution(failed, execDuration) ==
    /\ pf.pc \in {"spawn", "wait"}
    /\ pf.g.lock > 0
    /\ pf' = [pf EXCEPT !.g.lock = @ - 1, !.g.release = @ + 1,
                        !.metrics = Record(@, failed, execDuration),
                        !.times[execDuration] = @ + 1]
    /\ PerfFrame

(* 373: the deferred <-semaphore *)
Release ==
    /\ pf.pc \in {"spawn", "wait"}
    /\ pf.g.release > 0
    /\ pf' = [pf EXCEPT !.g.release = @ - 1, !.g.done = @ + 1]
    /\ PerfFrame

(* 371: the deferred wg.Done() *)
WaitGroupDone ==
    /\ pf.pc \in {"spawn", "wait"}
    /\ pf.g.done > 0
    /\ pf' = [pf EXCEPT !.g.done = @ - 1, !.wg = @ - 1]
    /\ PerfFrame

(* 401-410: wg.Wait() returns, the derived fields, return metrics *)
WaitReturns ==
    /\ pf.pc = "wait"
    /\ pf.wg = 0
    /\ pf' = [pf EXCEPT !.pc = "returned",
                        !.metrics = [@ EXCEPT !.TotalExecutions = numTests,
                                              !.AverageTime =
                                                 pf.metrics.TotalTime \div numTests]]
    /\ PerfFrame

PerfNext ==
    \/ PerfBegin
    \/ \E failed \in BOOLEAN : WarmUp(failed)
    \/ Spawn
    \/ Acquire
    \/ PerfExecuteReturns
    \/ \E failed \in BOOLEAN, d \in Durations : RecordExecution(failed, d)
    \/ Release
    \/ WaitGroupDone
    \/ WaitReturns

SpecPerf == Init /\ [][PerfNext]_vars

(* The scheduler runs every goroutine that can take a step, and every     *)
(* executor.Execute call returns                                           *)
PerfFairness ==
    /\ WF_vars(\E failed \in BOOLEAN : WarmUp(failed))
    /\ WF_vars(Spawn)
    /\ WF_vars(Acquire)
    /\ WF_vars(PerfExecuteReturns)
    /\ WF_vars(\E failed \in BOOLEAN, d \in Durations : RecordExecution(failed, d))
    /\ WF_vars(Release)
    /\ WF_vars(WaitGroupDone)
    /\ WF_vars(WaitReturns)

SpecPerfFair == Init /\ [][PerfNext]_vars /\ PerfFairness

----------------------------------------------------------------------------
(* Claims about the plugins *)

Listing(language) ==
    {i \in 1..Len(plug.loaded) : language \in Range(plug.loaded[i].languages)}

Last(S) == CHOOSE i \in S : \A j \in S : j <= i

(* C20: GetExecutor(L) returns the executor of the last loaded plugin      *)
(* whose manifest lists L, and reports not-found exactly when no loaded    *)
(* plugin lists L.                                                          *)
C20_LastLoadedWins ==
    \A l \in PluginLanguages :
        GetExecutor(plug.plugins, l) =
            IF Listing(l) = {}
            THEN [executor |-> <<>>, ok |-> FALSE]
            ELSE [executor |-> <<plug.loaded[Last(Listing(l))]>>, ok |-> TRUE]

(* C20 witness: two plugins that both list python were loaded, GetExecutor *)
(* just returned the second for python, and ruby belongs to one of them    *)
C20_Witness ==
    /\ plug.last.op = "get"
    /\ plug.last.language = "python"
    /\ Len(plug.loaded) >= 2
    /\ Listing("python") = {1, 2}
    /\ plug.loaded[1] # plug.loaded[2]
    /\ plug.last.got = [executor |-> <<plug.loaded[2]>>, ok |-> TRUE]
    /\ Listing("ruby") # Listing("python")

----------------------------------------------------------------------------
(* Claims about the command line *)

C14_FlagsReachExecutor ==
    (cli.pc \in {"builtin", "done"} /\ cli.invoked \cap {"local", "docker"} # {}) =>
        /\ cli.builtin[1].Timeout = cli.timeout
        /\ cli.builtin[1].MemoryLimit = cli.memoryLimit

(* C15: when the plugin process was started and printed one valid result   *)
(* JSON object, ExternalExecutor returns the decoded result and no error,  *)
(* whatever the exit status of the process; it returns an error only when  *)
(* the process could not be started or the output does not parse.           *)
C15_PluginResultReturned ==
    (cli.pc = "done" /\ cli.ext # <<>>) =>
        LET e == cli.ext[1]
        IN /\ (e.started /\ e.output.kind = "json" /\ e.output.shape = "result") =>
                 (cli.err = <<>> /\ cli.result = e.output.value)
           /\ cli.err # <<>> => (~e.started \/ e.output.kind # "json")

(* C16: no built-in executor runs code with a Timeout outside 1..300       *)
(* seconds or a MemoryLimit outside 1..1024 MB.                             *)
C16_LimitsInRange ==
    (cli.pc \in {"builtin", "done"} /\ cli.invoked \cap {"local", "docker"} # {}) =>
        /\ cli.builtin[1].Timeout \in 1..300
        /\ cli.builtin[1].MemoryLimit \in 1..1024

----------------------------------------------------------------------------
(* Claims about broken plugins *)

(* A plugin subdirectory is broken when its manifest is missing or does    *)
(* not parse, or when its executable is there under neither name           *)
Broken(dir) ==
    \/ "manifest.json" \notin DOMAIN dir
    \/ dir["manifest.json"].kind # "json"
    \/ /\ dir["manifest.json"].name \notin DOMAIN dir
       /\ (dir["manifest.json"].name \o ".exe") \notin DOMAIN dir

----------------------------------------------------------------------------
(* Claims about the child process of an executor *)

(* C22: every docker run of the basic Docker executor mounts the directory *)
(* of the source file read-only, whatever ReadOnlyRoot and NetworkAccess.  *)
C22_ReadOnlyMount ==
    (ex.pc # "idle" /\ ex.kind = "docker" /\ "docker run" \in ex.spawned) =>
        ("-v " \o ex.filePath[1] \o ":/workspace:ro") \in ex.args

(* C23: every child the local executor and the secure-local executor run   *)
(* on the host has the directory of the source file as its working         *)
(* directory.                                                               *)
C23_ChildWorkingDirectory ==
    (ex.pc # "idle" /\ ex.kind \in {"local", "secure"} /\ "host run" \in ex.spawned) =>
        ex.cwd = ex.filePath[1]

(* C28: a child of LocalExecutor.ExecuteFile that exited on its own is     *)
(* reported with its exit code and empty stderr; the timeout result is     *)
(* returned only for a child the deadline terminated.                       *)
C28_SentinelOnlyOnTimeout ==
    (ex.pc = "returned" /\ ex.kind = "local" /\ "host run" \in ex.spawned) =>
        /\ (ex.cmdErr = <<>> \/ ex.cmdErr = <<ExitError(1)>>) =>
              ex.result = <<ResultOf(ex.cmdErr)>>
        /\ ex.result = <<TimedOutResult>> => ex.expired_at = "running"

----------------------------------------------------------------------------
(* Claims about the test framework *)

(* C24: when containment is expected validateTestResult is true exactly    *)
(* when the exit code is not 0, or a non-empty expected output occurs in   *)
(* stdout, or stderr is not empty; otherwise exactly when the exit code is *)
(* the expected one and the expected output is empty or occurs in stdout.  *)
C24_ValidateTestResult ==
    tf.pc = "validated" =>
        LET e == tf.expected
            r == tf.result
            occurs == e.ExpectedOutput # <<>> /\ Contains(r.Stdout, e.ExpectedOutput)
        IN tf.Passed =
              IF e.ShouldBeContained
              THEN r.ExitCode # 0 \/ occurs \/ r.Stderr # <<>>
              ELSE r.ExitCode = e.ExpectedExitCode /\ (e.ExpectedOutput = <<>> \/ occurs)

----------------------------------------------------------------------------
(* Claims about the performance framework *)

(* The sum, the smallest and the largest of the durations in times *)
SumOfTimes == pf.times[2] * 2 + pf.times[Hour + 1] * (Hour + 1)
Measured == {d \in Durations : pf.times[d] > 0}

(* C25: at most five goroutines hold the semaphore in every state, and    *)
(* every run of runPerformanceTest gets all ten goroutines through and    *)
(* returns from wg.Wait.                                                    *)
C25_AtMostFiveAndAllFinish ==
    /\ [](pf.pc # "idle" => Holding(pf.g) <= 5)
    /\ (pf.pc = "warmup" ~> (pf.pc = "returned" /\ pf.times[2] + pf.times[Hour + 1] = 10))

(* C25 witness: five goroutines hold the semaphore while others wait *)
C25_Witness ==
    /\ pf.pc \in {"spawn", "wait"}
    /\ Holding(pf.g) = 5
    /\ pf.g.acquire > 0

(* C26: the returned metrics have TotalExecutions = 10, successful plus   *)
(* failed = 10 and TotalTime = the sum of the ten measured durations,      *)
(* whatever the warm-up runs returned.                                      *)
C26_NoLostUpdate ==
    pf.pc = "returned" =>
        /\ pf.metrics.TotalExecutions = 10
        /\ pf.metrics.SuccessfulExecutions + pf.metrics.FailedExecutions = 10
        /\ pf.times[2] + pf.times[Hour + 1] = 10
        /\ pf.metrics.TotalTime = SumOfTimes

(* C26 witness: a returned run with failures and successes and two        *)
(* different durations                                                      *)
C26_Witness ==
    /\ pf.pc = "returned"
    /\ pf.metrics.FailedExecutions = 3
    /\ pf.metrics.SuccessfulExecutions = 7
    /\ pf.times[2] = 4

(* C27: the returned metrics have AverageTime = TotalTime / 10, MinTime   *)
(* the smallest and MaxTime the largest of the ten durations, and          *)
(* MinTime <= AverageTime <= MaxTime.                                       *)
C27_MinAverageMax ==
    pf.pc = "returned" =>
        /\ pf.metrics.AverageTime = pf.metrics.TotalTime \div 10
        /\ \A d \in Measured : pf.metrics.MinTime <= d /\ d <= pf.metrics.MaxTime
        /\ pf.metrics.MinTime \in Measured
        /\ pf.metrics.MaxTime \in Measured
        /\ pf.metrics.MinTime <= pf.metrics.AverageTime
        /\ pf.metrics.AverageTime <= pf.metrics.MaxTime

----------------------------------------------------------------------------
(* Claims about the plugin directory *)

(* C29: an install or update that returns an error leaves the local       *)
(* plugin directory as it was: the same plugins are listed, no new or      *)
(* partly written subdirectory exists, and what was installed is as it     *)
(* was.                                                                     *)
C29_FailedInstallChangesNothing ==
    [][(plug'.last.op = "install" /\ plug'.last.err # NoError) =>
          /\ ListPlugins(plug'.dirs) = ListPlugins(plug.dirs)
          /\ plug'.dirs = plug.dirs]_vars

(* C30: remove(name) and install(name) change nothing but the             *)
(* subdirectory of the plugin named: every other plugin's subdirectory     *)
(* and everything outside the local plugin directory are as before.        *)
C30_OnlyOwnSubdirectory ==
    [][\A name \in PathNames \cup {<<n>> : n \in PluginNames} :
          (\/ RemovePluginNamed(name)
           \/ /\ Len(name) = 1
              /\ \E i \in RegistryInfos, f \in FailPoints : InstallPlugin(name[1], i, f)) =>
             /\ plug'.outside = plug.outside
             /\ \A n \in DOMAIN plug.dirs :
                   name # <<n>> => (n \in DOMAIN plug'.dirs /\ plug'.dirs[n] = plug.dirs[n])]_vars

====
